---- MODULE Spec2Model ----
(***************************************************************************)
(* State-machine model of sales_analyzer.py: the SalesAnalyzer session     *)
(* object (__init__, load_data, analyze, save_plot) together with the      *)
(* collaborators it calls: os.getenv / os.path.exists, the OpenAI handle   *)
(* constructor, the process-wide pai.config registry, pd.read_csv,         *)
(* SmartDataframe / SmartDataframe.chat and the module-global name plt.    *)
(*                                                                         *)
(* Python values are records tagged by "kind" so that None, strings,       *)
(* tables and handles can be compared with one another.  The variable      *)
(* `last` is the observable trace of the most recent call: the operation,  *)
(* its receiver and argument, the collaborator calls it made in order      *)
(* (with print lines among them), and how it ended (return or raise).      *)
(***************************************************************************)
EXTENDS Naturals, Sequences, FiniteSets, TLC

VARIABLES
    plt_defined,   \* whether the name `plt` resolves in the module globals
    fignums,       \* number of figures the plotting collaborator holds open
    config_llm,    \* pai.config["llm"], the process-wide active engine
    openai_calls,  \* api_token of every OpenAI(...) constructor call, in order
    status,        \* per session: "unborn", "raised" (__init__ raised), "live"
    llm,           \* per session: self.llm
    df,            \* per session: self.df
    constructed,   \* per session: handles constructed during its __init__
    loaded,        \* per session: path of the most recent load_data that returned
    previous,      \* per session: path of the load_data that returned before that
    last           \* trace of the most recent call

vars == <<plt_defined, fignums, config_llm, openai_calls, status, llm, df,
          constructed, loaded, previous, last>>

(* ------------------------------ bounds --------------------------------- *)

MaxFigs == 2

(* --------------------------- Python values ----------------------------- *)

None == [kind |-> "None"]

Str(s) == [kind |-> "str", s |-> s]

Return(v) == [kind |-> "return", value |-> v]

Raise(type, msg) == [kind |-> "raise", type |-> type, msg |-> msg]

Call(fn, args, result) == [fn |-> fn, args |-> args, result |-> result]

Log(line) == Call("print", <<Str(line)>>, Return(None))

\* classes caught by `except Exception` (KeyboardInterrupt derives from
\* BaseException only)
ExceptionSubclasses == {"Exception", "ValueError", "OSError"}

IsException(e) == e.type \in ExceptionSubclasses

(* ------------------------------ sessions ------------------------------- *)

Sessions == {"s1", "s2"}

\* what os.getenv('OPENAI_API_KEY') can return after load_dotenv()
ApiKeys == {None, Str(""), Str("k1"), Str("k2")}

OpenAI(n, api_key) == [kind |-> "OpenAI", id |-> n, api_token |-> api_key.s]

(* ----------------------------- file system ----------------------------- *)

Paths == {"no_such_file.csv", "sample.csv", "empty.csv", "blank.csv"}

NoPath == "<none>"

\* os.path.exists
exists(file_path) == file_path # "no_such_file.csv"

\* text of the existing files, as lines of comma-separated fields
FileText(file_path) ==
    CASE file_path = "sample.csv" ->
             << <<"Date", "Sales">>, <<"2024-01", "10">>, <<"2024-02", "20">> >>
      [] file_path = "empty.csv" ->
             << <<"Date", "Sales">> >>
      [] OTHER -> << >>

DataFrame(columns, rows) == [kind |-> "DataFrame", columns |-> columns, rows |-> rows]

\* pd.read_csv: first line is the header, the rest are rows; a file with no
\* header line raises EmptyDataError
read_csv(file_path) ==
    LET text == FileText(file_path)
    IN  IF Len(text) = 0
        THEN Raise("EmptyDataError", "No columns to parse from file")
        ELSE Return(DataFrame(Head(text), Tail(text)))

(* ------------------------------- initial ------------------------------- *)

NoCall == [op |-> "none", self |-> "none", arg |-> None, calls |-> << >>,
           outcome |-> Return(None)]

Init ==
    /\ plt_defined \in BOOLEAN
    /\ fignums = 0
    /\ config_llm = None
    /\ openai_calls = << >>
    /\ status = [s \in Sessions |-> "unborn"]
    /\ llm = [s \in Sessions |-> None]
    /\ df = [s \in Sessions |-> None]
    /\ constructed = [s \in Sessions |-> << >>]
    /\ loaded = [s \in Sessions |-> NoPath]
    /\ previous = [s \in Sessions |-> NoPath]
    /\ last = NoCall

(* ------------------------------ __init__ ------------------------------- *)

\* variant: `if api_key is None`, which lets the empty string through
CredentialMissing_NoneOnly(api_key) == api_key = None

\* `if not api_key`
CredentialMissing(api_key) == api_key = None \/ api_key = Str("")

\* variant: a second OpenAI(...) is constructed for self.llm
SalesAnalyzer_init_TwoHandles(self, api_key) ==
    /\ status[self] = "unborn"
    /\ IF CredentialMissing(api_key)
       THEN /\ status' = [status EXCEPT ![self] = "raised"]
            /\ last' = [op |-> "__init__", self |-> self, arg |-> api_key,
                        calls |-> << >>,
                        outcome |-> Raise("ValueError",
                            "OpenAI API key not found. Please set it in .env file")]
            /\ UNCHANGED <<config_llm, openai_calls, llm, df, constructed>>
       ELSE LET h == OpenAI(Len(openai_calls) + 1, api_key)
                h2 == OpenAI(Len(openai_calls) + 2, api_key)
            IN  /\ openai_calls' = openai_calls \o <<api_key.s, api_key.s>>
                /\ config_llm' = h
                /\ llm' = [llm EXCEPT ![self] = h2]
                /\ df' = [df EXCEPT ![self] = None]
                /\ constructed' = [constructed EXCEPT ![self] = @ \o <<h, h2>>]
                /\ status' = [status EXCEPT ![self] = "live"]
                /\ last' = [op |-> "__init__", self |-> self, arg |-> api_key,
                            calls |-> << Call("OpenAI", <<api_key>>, Return(h)),
                                         Call("pai.config.set", <<h>>, Return(None)) >>,
                            outcome |-> Return(None)]
    /\ UNCHANGED <<plt_defined, fignums, loaded, previous>>

SalesAnalyzer_init(self, api_key) ==
    /\ status[self] = "unborn"
    /\ IF CredentialMissing(api_key)
       THEN /\ status' = [status EXCEPT ![self] = "raised"]
            /\ last' = [op |-> "__init__", self |-> self, arg |-> api_key,
                        calls |-> << >>,
                        outcome |-> Raise("ValueError",
                            "OpenAI API key not found. Please set it in .env file")]
            /\ UNCHANGED <<config_llm, openai_calls, llm, df, constructed>>
       ELSE LET h == OpenAI(Len(openai_calls) + 1, api_key)
            IN  /\ openai_calls' = Append(openai_calls, api_key.s)
                /\ config_llm' = h
                /\ llm' = [llm EXCEPT ![self] = h]
                /\ df' = [df EXCEPT ![self] = None]
                /\ constructed' = [constructed EXCEPT ![self] = Append(@, h)]
                /\ status' = [status EXCEPT ![self] = "live"]
                /\ last' = [op |-> "__init__", self |-> self, arg |-> api_key,
                            calls |-> << Call("OpenAI", <<api_key>>, Return(h)),
                                         Call("pai.config.set", <<h>>, Return(None)) >>,
                            outcome |-> Return(None)]
    /\ UNCHANGED <<plt_defined, fignums, loaded, previous>>

(* ------------------------------ load_data ------------------------------ *)

\* variant: self.df is reset before the path is checked
load_data_ClearsFirst(self, file_path) ==
    /\ status[self] = "live"
    /\ IF ~exists(file_path)
       THEN /\ last' = [op |-> "load_data", self |-> self, arg |-> Str(file_path),
                        calls |-> << >>,
                        outcome |-> Raise("FileNotFoundError",
                                          "CSV file not found: " \o file_path)]
            /\ df' = [df EXCEPT ![self] = None]
            /\ UNCHANGED <<loaded, previous>>
       ELSE LET r == read_csv(file_path)
                calls == << Log("Loading data with rows"),
                            Call("pd.read_csv", <<Str(file_path)>>, r) >>
            IN  IF r.kind = "raise"
                THEN /\ last' = [op |-> "load_data", self |-> self,
                                 arg |-> Str(file_path), calls |-> calls,
                                 outcome |-> r]
                     /\ UNCHANGED <<df, loaded, previous>>
                ELSE /\ df' = [df EXCEPT ![self] = r.value]
                     /\ loaded' = [loaded EXCEPT ![self] = file_path]
                     /\ previous' = [previous EXCEPT ![self] = loaded[self]]
                     /\ last' = [op |-> "load_data", self |-> self,
                                 arg |-> Str(file_path), calls |-> calls,
                                 outcome |-> Return(None)]
    /\ UNCHANGED <<plt_defined, fignums, config_llm, openai_calls, status, llm,
                   constructed>>

\* variant: the parsed rows are appended to the table already held
load_data_Appends(self, file_path) ==
    /\ status[self] = "live"
    /\ IF ~exists(file_path)
       THEN /\ last' = [op |-> "load_data", self |-> self, arg |-> Str(file_path),
                        calls |-> << >>,
                        outcome |-> Raise("FileNotFoundError",
                                          "CSV file not found: " \o file_path)]
            /\ UNCHANGED <<df, loaded, previous>>
       ELSE LET r == read_csv(file_path)
                calls == << Log("Loading data with rows"),
                            Call("pd.read_csv", <<Str(file_path)>>, r) >>
            IN  IF r.kind = "raise"
                THEN /\ last' = [op |-> "load_data", self |-> self,
                                 arg |-> Str(file_path), calls |-> calls,
                                 outcome |-> r]
                     /\ UNCHANGED <<df, loaded, previous>>
                ELSE /\ df' = [df EXCEPT ![self] =
                                IF @ = None THEN r.value
                                ELSE DataFrame(r.value.columns,
                                               @.rows \o r.value.rows)]
                     /\ loaded' = [loaded EXCEPT ![self] = file_path]
                     /\ previous' = [previous EXCEPT ![self] = loaded[self]]
                     /\ last' = [op |-> "load_data", self |-> self,
                                 arg |-> Str(file_path), calls |-> calls,
                                 outcome |-> Return(None)]
    /\ UNCHANGED <<plt_defined, fignums, config_llm, openai_calls, status, llm,
                   constructed>>

load_data(self, file_path) ==
    /\ status[self] = "live"
    /\ IF ~exists(file_path)
       THEN /\ last' = [op |-> "load_data", self |-> self, arg |-> Str(file_path),
                        calls |-> << >>,
                        outcome |-> Raise("FileNotFoundError",
                                          "CSV file not found: " \o file_path)]
            /\ UNCHANGED <<df, loaded, previous>>
       ELSE LET r == read_csv(file_path)
                calls == << Log("Loading data with rows"),
                            Call("pd.read_csv", <<Str(file_path)>>, r) >>
            IN  IF r.kind = "raise"
                THEN /\ last' = [op |-> "load_data", self |-> self,
                                 arg |-> Str(file_path), calls |-> calls,
                                 outcome |-> r]
                     /\ UNCHANGED <<df, loaded, previous>>
                ELSE /\ df' = [df EXCEPT ![self] = r.value]
                     /\ loaded' = [loaded EXCEPT ![self] = file_path]
                     /\ previous' = [previous EXCEPT ![self] = loaded[self]]
                     /\ last' = [op |-> "load_data", self |-> self,
                                 arg |-> Str(file_path), calls |-> calls,
                                 outcome |-> Return(None)]
    /\ UNCHANGED <<plt_defined, fignums, config_llm, openai_calls, status, llm,
                   constructed>>

(* ------------------------------- analyze ------------------------------- *)

Queries == {"Test query", "What are the total sales by month?"}

\* what the SmartDataframe constructor can do
SmartDataframeOutcomes ==
    {Return(None), Raise("Exception", "invalid config")}

\* what SmartDataframe.chat can do
ChatOutcomes ==
    {Return(Str("Analysis result")), Return(None),
     Raise("Exception", "LLM error"), Raise("KeyboardInterrupt", "")}

\* variant: `if self.df is None or self.df.empty`
NoDataLoaded_OrEmpty(d) == IF d = None THEN TRUE ELSE d.rows = << >>

\* `if self.df is None`
NoDataLoaded(d) == d = None

\* variant: the result of chat is dropped instead of returned
HandleChat_DropsResult(c) ==
    IF c.kind = "return" THEN << << >>, Return(None) >>
    ELSE IF IsException(c)
         THEN << << Log("Error during analysis: " \o c.msg) >>, Return(None) >>
         ELSE << << >>, c >>

\* the try/except around smart_df.chat(query): what analyze does with the
\* outcome of chat, as <<further calls, outcome of analyze>>
HandleChat(c) ==
    IF c.kind = "return" THEN << << >>, c >>
    ELSE IF IsException(c)
         THEN << << Log("Error during analysis: " \o c.msg) >>, Return(None) >>
         ELSE << << >>, c >>

analyze(self, query) ==
    /\ status[self] = "live"
    /\ IF NoDataLoaded(df[self])
       THEN /\ last' = [op |-> "analyze", self |-> self, arg |-> Str(query),
                        calls |-> << >>,
                        outcome |-> Raise("ValueError",
                            "No data loaded. Please load a CSV file first")]
            /\ UNCHANGED fignums
       ELSE \E ctor \in SmartDataframeOutcomes :
              LET view == Call("SmartDataframe", <<df[self], llm[self]>>, ctor)
              IN  IF ctor.kind = "raise"
                  THEN /\ last' = [op |-> "analyze", self |-> self,
                                   arg |-> Str(query), calls |-> <<view>>,
                                   outcome |-> ctor]
                       /\ UNCHANGED fignums
                  ELSE \E c \in ChatOutcomes, plots \in 0..1 :
                         /\ fignums + plots <= MaxFigs
                         /\ fignums' = fignums + plots
                         /\ last' = [op |-> "analyze", self |-> self,
                                     arg |-> Str(query),
                                     calls |-> <<view, Call("chat", <<Str(query)>>, c)>>
                                                \o HandleChat(c)[1],
                                     outcome |-> HandleChat(c)[2]]
    /\ UNCHANGED <<plt_defined, config_llm, openai_calls, status, llm, df,
                   constructed, loaded, previous>>

(* ------------------------------ save_plot ------------------------------ *)

Filenames == {"analysis_plot.png", "test_plot.png"}

\* what plt.savefig can do
SavefigOutcomes == {Return(None), Raise("OSError", "No such file or directory")}

\* variant: an error from savefig is caught and None returned
save_plot_Swallows(self, filename) ==
    /\ status[self] = "live"
    /\ IF ~plt_defined
       THEN /\ last' = [op |-> "save_plot", self |-> self, arg |-> Str(filename),
                        calls |-> << >>,
                        outcome |-> Raise("NameError", "name 'plt' is not defined")]
            /\ UNCHANGED fignums
       ELSE LET get == Call("plt.get_fignums", << >>, Return(Str(ToString(fignums))))
            IN  IF fignums = 0
                THEN /\ last' = [op |-> "save_plot", self |-> self,
                                 arg |-> Str(filename), calls |-> <<get>>,
                                 outcome |-> Return(None)]
                     /\ UNCHANGED fignums
                ELSE \E sv \in SavefigOutcomes :
                       LET save == Call("plt.savefig", <<Str(filename)>>, sv)
                       IN  IF sv.kind = "raise"
                           THEN /\ last' = [op |-> "save_plot", self |-> self,
                                            arg |-> Str(filename),
                                            calls |-> <<get, save>>,
                                            outcome |-> Return(None)]
                                /\ UNCHANGED fignums
                           ELSE /\ fignums' = fignums - 1
                                /\ last' = [op |-> "save_plot", self |-> self,
                                            arg |-> Str(filename),
                                            calls |-> <<get, save,
                                                Call("plt.close", << >>, Return(None)),
                                                Log("Plot saved as " \o filename)>>,
                                            outcome |-> Return(None)]
    /\ UNCHANGED <<plt_defined, config_llm, openai_calls, status, llm, df,
                   constructed, loaded, previous>>

save_plot(self, filename) ==
    /\ status[self] = "live"
    /\ IF ~plt_defined
       THEN /\ last' = [op |-> "save_plot", self |-> self, arg |-> Str(filename),
                        calls |-> << >>,
                        outcome |-> Raise("NameError", "name 'plt' is not defined")]
            /\ UNCHANGED fignums
       ELSE LET get == Call("plt.get_fignums", << >>, Return(Str(ToString(fignums))))
            IN  IF fignums = 0
                THEN /\ last' = [op |-> "save_plot", self |-> self,
                                 arg |-> Str(filename), calls |-> <<get>>,
                                 outcome |-> Return(None)]
                     /\ UNCHANGED fignums
                ELSE \E sv \in SavefigOutcomes :
                       LET save == Call("plt.savefig", <<Str(filename)>>, sv)
                       IN  IF sv.kind = "raise"
                           THEN /\ last' = [op |-> "save_plot", self |-> self,
                                            arg |-> Str(filename),
                                            calls |-> <<get, save>>,
                                            outcome |-> sv]
                                /\ UNCHANGED fignums
                           ELSE /\ fignums' = fignums - 1
                                /\ last' = [op |-> "save_plot", self |-> self,
                                            arg |-> Str(filename),
                                            calls |-> <<get, save,
                                                Call("plt.close", << >>, Return(None)),
                                                Log("Plot saved as " \o filename)>>,
                                            outcome |-> Return(None)]
    /\ UNCHANGED <<plt_defined, config_llm, openai_calls, status, llm, df,
                   constructed, loaded, previous>>

(* ------------------------- reading the trace --------------------------- *)

CallsTo(fn) == SelectSeq(last.calls, LAMBDA c : c.fn = fn)

Raised(fn) == \E i \in 1..Len(last.calls) :
                  last.calls[i].fn = fn /\ last.calls[i].result.kind = "raise"

StateError == Raise("ValueError", "No data loaded. Please load a CSV file first")

Parsed(file_path) == DataFrame(Head(FileText(file_path)), Tail(FileText(file_path)))

(* ---------------------------- specification ---------------------------- *)

Next ==
    \/ \E self \in Sessions, api_key \in ApiKeys : SalesAnalyzer_init(self, api_key)
    \/ \E self \in Sessions, file_path \in Paths : load_data(self, file_path)
    \/ \E self \in Sessions, query \in Queries : analyze(self, query)
    \/ \E self \in Sessions, filename \in Filenames : save_plot(self, filename)

Spec == Init /\ [][Next]_vars

(* ------------------------------- claims -------------------------------- *)

\* C1: analyze raises the "No data loaded" ValueError, having made no
\* collaborator call, exactly when no load_data on that session has returned
\* so far; after a load that returned (a header-only file included) it never
\* raises that error, whatever the query.
C1_StateErrorIffNeverLoaded ==
    last.op = "analyze" =>
        ((last.outcome = StateError /\ last.calls = << >>)
            <=> loaded[last.self] = NoPath)

C1_Witness ==
    /\ last.op = "analyze"
    /\ loaded[last.self] = "empty.csv"
    /\ df[last.self].rows = << >>
    /\ Len(CallsTo("chat")) = 1
    /\ last.outcome.kind = "return"

\* C2 (as claimed): with a table loaded, whenever the SmartDataframe
\* constructor or chat raises, analyze returns None and prints exactly one
\* line "Error during analysis: <message>".
C2_AnyCollaboratorFailureIsSoft ==
    (last.op = "analyze" /\ (Raised("SmartDataframe") \/ Raised("chat"))) =>
        /\ last.outcome = Return(None)
        /\ \E i \in 1..Len(last.calls) :
               /\ last.calls[i].result.kind = "raise"
               /\ CallsTo("print") =
                      << Log("Error during analysis: " \o last.calls[i].result.msg) >>

\* C3: load_data on a path that does not exist raises FileNotFoundError and
\* leaves every session's table as it was before the call.
C3_NotFoundLeavesTable ==
    [][(last'.op = "load_data" /\ last'.arg = Str("no_such_file.csv")) =>
          /\ last'.outcome.kind = "raise"
          /\ last'.outcome.type = "FileNotFoundError"
          /\ df' = df]_vars

C3_Witness ==
    /\ last.op = "load_data"
    /\ last.outcome.kind = "raise"
    /\ last.outcome.type = "FileNotFoundError"
    /\ loaded[last.self] = "sample.csv"
    /\ df[last.self] = Parsed("sample.csv")

\* C4: __init__ with the credential absent or empty raises the "API key not
\* found" ValueError, calls neither the OpenAI constructor nor
\* pai.config.set, and a session whose __init__ raised holds no handle.
C4_NoCredentialNoHandle ==
    /\ (last.op = "__init__" /\ last.arg \in {None, Str("")}) =>
           /\ last.outcome = Raise("ValueError",
                  "OpenAI API key not found. Please set it in .env file")
           /\ last.calls = << >>
    /\ \A s \in Sessions :
           status[s] = "raised" => (constructed[s] = << >> /\ llm[s] = None)
    /\ Len(openai_calls) = Cardinality({s \in Sessions : status[s] = "live"})

C4_Witness ==
    /\ last.op = "__init__"
    /\ last.arg = Str("")
    /\ status[last.self] = "raised"
    /\ \E s \in Sessions : status[s] = "live"

\* C5: __init__ with a credential constructs exactly one handle, bound to
\* that credential, and in every later state the session's llm is that
\* handle.
C5_HandleSetOnce ==
    /\ \A s \in Sessions :
           status[s] = "live" =>
               /\ Len(constructed[s]) = 1
               /\ llm[s] = constructed[s][1]
    /\ (last.op = "__init__" /\ last.outcome.kind = "return") =>
           /\ CallsTo("OpenAI")
                  = << Call("OpenAI", <<last.arg>>, Return(llm[last.self])) >>
           /\ llm[last.self].api_token = last.arg.s

C5_Witness ==
    /\ last.op = "save_plot"
    /\ loaded[last.self] # NoPath
    /\ llm[last.self] = constructed[last.self][1]
    /\ llm[last.self].api_token = "k2"

\* C6: once a load_data has returned, the session's table is the parse of
\* the file of the most recent load_data that returned, and nothing else.
C6_TableIsLastLoad ==
    \A s \in Sessions :
        IF loaded[s] = NoPath THEN df[s] = None ELSE df[s] = Parsed(loaded[s])

C6_Witness ==
    /\ last.op = "analyze"
    /\ previous[last.self] = "sample.csv"
    /\ loaded[last.self] = "empty.csv"
    /\ df[last.self] = Parsed("empty.csv")

\* C7: when chat returns, analyze has built one view over the session's
\* table and handle, called chat once with exactly the query, printed
\* nothing, and returns chat's value unchanged.
C7_SuccessPassesThrough ==
    (last.op = "analyze" /\ Len(CallsTo("chat")) > 0
        /\ CallsTo("chat")[1].result.kind = "return") =>
        /\ Len(last.calls) = 2
        /\ last.calls[1] = Call("SmartDataframe",
                                <<df[last.self], llm[last.self]>>, Return(None))
        /\ last.calls[2] = Call("chat", <<last.arg>>, last.outcome)
        /\ CallsTo("print") = << >>

C7_Witness ==
    /\ last.op = "analyze"
    /\ last.outcome = Return(Str("Analysis result"))
    /\ last.arg = Str("Test query")

\* C8 (as claimed): in every session state save_plot raises nothing unless
\* savefig does; with a figure pending it calls savefig(filename), then
\* close, then prints "Plot saved as <filename>", each once; with none
\* pending it calls neither and prints nothing.
C8_SavePlotDependsOnlyOnFigure ==
    (last.op = "save_plot" /\ ~Raised("plt.savefig")) =>
        /\ last.outcome = Return(None)
        /\ \/ /\ CallsTo("plt.savefig") = << >>
              /\ CallsTo("plt.close") = << >>
              /\ CallsTo("print") = << >>
           \/ /\ Len(last.calls) >= 3
              /\ SubSeq(last.calls, Len(last.calls) - 2, Len(last.calls)) =
                     << Call("plt.savefig", <<last.arg>>, Return(None)),
                        Call("plt.close", << >>, Return(None)),
                        Log("Plot saved as " \o last.arg.s) >>
              /\ Len(CallsTo("plt.savefig")) = 1
              /\ Len(CallsTo("plt.close")) = 1
              /\ Len(CallsTo("print")) = 1

\* C9 (as claimed): no call on one session changes what another live session
\* can observe: its handle, its table, and the engine its own __init__
\* registered as active.
C9_SessionsShareNothing ==
    [][\A s \in Sessions :
          (status[s] = "live" /\ last'.self # s) =>
              /\ llm'[s] = llm[s]
              /\ df'[s] = df[s]
              /\ (config_llm = llm[s] => config_llm' = llm[s])]_vars

\* C10: when savefig raises, save_plot ends with that same exception, and
\* has neither closed the figure nor printed "Plot saved as".
C10_SavefigErrorPropagates ==
    [][(last'.op = "save_plot"
            /\ Len(SelectSeq(last'.calls, LAMBDA c : c.fn = "plt.savefig")) > 0
            /\ SelectSeq(last'.calls,
                         LAMBDA c : c.fn = "plt.savefig")[1].result.kind = "raise") =>
          /\ last'.outcome = SelectSeq(last'.calls,
                                       LAMBDA c : c.fn = "plt.savefig")[1].result
          /\ SelectSeq(last'.calls, LAMBDA c : c.fn \in {"plt.close", "print"}) = << >>
          /\ fignums' = fignums]_vars

C10_Witness ==
    /\ last.op = "save_plot"
    /\ last.outcome = Raise("OSError", "No such file or directory")
    /\ fignums > 0

====
